---- MODULE Spec2Model ----
(***************************************************************************)
(* Conv2dPixelShuffle (torchlayers/upsample.py): a convolution producing   *)
(* out_channels * r^2 channels followed by PixelShuffle(r), with the ICNR  *)
(* initializer icnr_initialization.                                        *)
(*                                                                         *)
(* Tensors are modelled by value: a shape and the elements in row-major    *)
(* (logical) order.  An operation that raises yields the value Raise(e).   *)
(* Indices are 0-based as in the source; positions in data are 1-based.    *)
(***************************************************************************)
EXTENDS Integers, Sequences, FiniteSets, TLC

VARIABLES
    pc,           \* position in the life cycle / in the call
    args,         \* the arguments __init__ was called with
    convolution,  \* self.convolution: configuration and weight tensor
    upsample,     \* self.upsample: the PixelShuffle and its upscale_factor
    initializer,  \* self.initializer
    tensor,       \* the caller's tensor passed to icnr_initialization, now
    given,        \* the contents that tensor had when it was passed
    ret,          \* what the last icnr_initialization call returned
    initcalls,    \* the initializer invocations made so far
    trace,        \* the primitives the last forward applied, in order
    inputs,       \* shape of the last forward's input
    out,          \* shape of the last forward's output
    nforward      \* number of forward calls so far

vars == <<pc, args, convolution, upsample, initializer, tensor, given, ret,
          initcalls, trace, inputs, out, nforward>>

---------------------------------------------------------------------------
(* Bounds *)

MaxO == 8        \* first dimension of a tensor passed to icnr_initialization
MaxI == 3        \* second dimension of such a tensor
MaxK == 3        \* kernel height and width of such a tensor
MaxR == 2        \* upscale_factor
MaxIn == 2       \* in_channels of a constructed module
MaxOut == 2      \* out_channels of a constructed module
MaxKernel == 2   \* kernel_size of a constructed module
MaxN == 2        \* batch size of a forward input
MaxHW == 2       \* height and width of a forward input
MaxForward == 2  \* forward calls followed

---------------------------------------------------------------------------
(* Tensors *)

RECURSIVE Prod(_)
Prod(s) == IF s = <<>> THEN 1 ELSE Head(s) * Prod(Tail(s))

Tensor(shape, data) == [ok |-> TRUE, err |-> "", shape |-> shape, data |-> data]

Raise(e) == [ok |-> FALSE, err |-> e, shape |-> <<>>, data |-> <<>>]

numel(t) == Len(t.data)

\* stride of axis i (1-based) of a contiguous tensor of this shape
Stride(shape, i) == Prod(SubSeq(shape, i + 1, Len(shape)))

\* multi-index (0-based) of the element at 0-based offset m
Unravel(shape, m) ==
    [i \in 1..Len(shape) |-> (m \div Stride(shape, i)) % shape[i]]

RECURSIVE Offset(_, _, _)
Offset(shape, idx, i) ==
    IF i > Len(shape) THEN 0
    ELSE idx[i] * Stride(shape, i) + Offset(shape, idx, i + 1)

\* t[idx] for a 0-based multi-index
At(t, idx) == t.data[1 + Offset(t.shape, idx, 1)]

\* torch.zeros(shape)
zeros(shape) == Tensor(shape, [n \in 1..Prod(shape) |-> 0])

\* Tensor.transpose(dim0, dim1), dims 0-based
transpose(t, dim0, dim1) ==
    LET a == dim0 + 1
        b == dim1 + 1
        swap(s) == [i \in 1..Len(s) |->
                      IF i = a THEN s[b] ELSE IF i = b THEN s[a] ELSE s[i]]
        shape == swap(t.shape)
    IN  IF ~t.ok THEN t
        ELSE Tensor(shape,
               [n \in 1..numel(t) |-> At(t, swap(Unravel(shape, n - 1)))])

\* Tensor.reshape(shape); one entry of shape may be -1 and is inferred
reshape(t, shape) ==
    LET n == numel(t)
        infer == {i \in DOMAIN shape : shape[i] = -1}
        newsize == Prod([i \in DOMAIN shape |->
                           IF shape[i] = -1 THEN 1 ELSE shape[i]])
    IN  IF ~t.ok THEN t
        ELSE IF infer = {}
        THEN IF newsize = n THEN Tensor(shape, t.data)
             ELSE Raise("RuntimeError")
        ELSE IF Cardinality(infer) > 1 THEN Raise("RuntimeError")
        ELSE IF newsize = 0 THEN Raise("RuntimeError")
        ELSE IF n % newsize # 0 THEN Raise("RuntimeError")
        ELSE Tensor([i \in DOMAIN shape |->
                       IF shape[i] = -1 THEN n \div newsize ELSE shape[i]],
                    t.data)

\* variant of repeat: every element repeated in place (repeat_interleave)
repeat_interleave(t, sizes) ==
    LET shape == [i \in 1..Len(t.shape) |-> t.shape[i] * sizes[i]]
    IN  IF ~t.ok THEN t
        ELSE Tensor(shape,
               [n \in 1..Prod(shape) |->
                  LET idx == Unravel(shape, n - 1)
                  IN  At(t, [i \in 1..Len(shape) |-> idx[i] \div sizes[i]])])

\* Tensor.repeat(*sizes) with as many sizes as the tensor has axes
repeat(t, sizes) ==
    LET shape == [i \in 1..Len(t.shape) |-> t.shape[i] * sizes[i]]
    IN  IF ~t.ok THEN t
        ELSE Tensor(shape,
               [n \in 1..Prod(shape) |->
                  LET idx == Unravel(shape, n - 1)
                  IN  At(t, [i \in 1..Len(shape) |-> idx[i] % t.shape[i]])])

---------------------------------------------------------------------------
(* The base initializer: a callable taking a tensor and returning the      *)
(* initialized tensor.  Its values are a function of the element's         *)
(* position; inplace says whether it fills the tensor it is given and      *)
(* returns that tensor (as the functions of torch.nn.init do) or returns   *)
(* a new tensor and leaves its argument alone.  All values are positive.   *)

Kinds == {"ones", "channel", "index"}

Initializers == [kind : Kinds, inplace : BOOLEAN]

InitValue(f, shape, n) ==
    CASE f.kind = "ones" -> 1
      [] f.kind = "channel" -> Unravel(shape, n - 1)[1] + 1
      [] f.kind = "index" -> n

\* self.initializer(t): the returned tensor and the argument afterwards
CallInitializer(f, t) ==
    LET filled == Tensor(t.shape,
                     [n \in 1..numel(t) |-> InitValue(f, t.shape, n)])
    IN  [returned |-> filled, arg |-> IF f.inplace THEN filled ELSE t]

\* contents of a tensor before anything initializes it
Fills == {"zeros", "arbitrary"}

Allocate(shape, fill) ==
    Tensor(shape, [n \in 1..Prod(shape) |-> IF fill = "zeros" THEN 0 ELSE -n])

---------------------------------------------------------------------------
(* icnr_initialization(self, tensor), as a function of                     *)
(* self.upsample.upscale_factor, self.initializer and the tensor.  It      *)
(* yields the returned value, the caller's tensor afterwards and the       *)
(* initializer invocations it made.                                        *)

\* variant of new_shape: the quotient rounded up instead of truncated
new_shape_rounded_up(t, upscale_factor) ==
    LET r2 == upscale_factor * upscale_factor
    IN  <<(t.shape[1] + r2 - 1) \div r2>> \o Tail(t.shape)

\* int(tensor.shape[0] / upscale_factor ** 2), for upscale_factor # 0
new_shape(t, upscale_factor) ==
    <<t.shape[1] \div (upscale_factor * upscale_factor)>> \o Tail(t.shape)

InitCall(on, arg, returned) == [on |-> on, arg |-> arg, returned |-> returned]

\* upscale_factor == 1: return self.initializer(tensor)
icnr_identity(f, t) ==
    LET c == CallInitializer(f, t)
    IN  [ret |-> c.returned, tensor |-> c.arg,
         initcalls |-> <<InitCall("tensor", t, c.returned)>>]

\* variant of subkernel: the transpose left out
subkernel_untransposed(returned) == returned

\* the initializer's result with axes 0 and 1 swapped
subkernel(returned) == transpose(returned, 0, 1)

\* subkernel.reshape(shape[0], shape[1], -1).repeat(1, 1, upscale_factor ** 2)
kernel(sub, upscale_factor) ==
    IF ~sub.ok THEN sub
    ELSE repeat(reshape(sub, <<sub.shape[1], sub.shape[2], -1>>),
                <<1, 1, upscale_factor * upscale_factor>>)

\* variant of rearranged: the final transpose left out
rearranged_untransposed(k, t) ==
    reshape(k, <<-1, t.shape[1]>> \o SubSeq(t.shape, 3, Len(t.shape)))

\* kernel.reshape([-1, tensor.shape[0]] + tensor.shape[2:]).transpose(0, 1)
rearranged(k, t) ==
    transpose(reshape(k, <<-1, t.shape[1]>> \o SubSeq(t.shape, 3, Len(t.shape))),
              0, 1)

\* variant of icnr_general: the result is also copied into the tensor
icnr_general_overwriting(upscale_factor, f, t) ==
    IF upscale_factor * upscale_factor = 0
    THEN [ret |-> Raise("ZeroDivisionError"), tensor |-> t,
          initcalls |-> <<>>]
    ELSE LET z == zeros(new_shape(t, upscale_factor))
             c == CallInitializer(f, z)
             result == rearranged(kernel(subkernel(c.returned),
                                         upscale_factor), t)
         IN  [ret |-> result,
              tensor |-> IF result.ok THEN result ELSE t,
              initcalls |-> <<InitCall("zeros", z, c.returned)>>]

\* upscale_factor # 1
icnr_general(upscale_factor, f, t) ==
    IF upscale_factor * upscale_factor = 0
    THEN [ret |-> Raise("ZeroDivisionError"), tensor |-> t,
          initcalls |-> <<>>]
    ELSE LET z == zeros(new_shape(t, upscale_factor))
             c == CallInitializer(f, z)
         IN  [ret |-> rearranged(kernel(subkernel(c.returned), upscale_factor),
                                 t),
              tensor |-> t,
              initcalls |-> <<InitCall("zeros", z, c.returned)>>]

\* variant of icnr_initialization: no shortcut for upscale_factor == 1
icnr_always_general(upscale_factor, f, t) ==
    icnr_general(upscale_factor, f, t)

icnr_initialization(upscale_factor, f, t) ==
    IF upscale_factor = 1 THEN icnr_identity(f, t)
    ELSE icnr_general(upscale_factor, f, t)

---------------------------------------------------------------------------
(* Construction *)

\* the weight tensor's shape: [out_channels, in_channels / groups, kH, kW]
\* with groups = 1 and a square kernel
WeightShape(in_channels, out_channels, kernel_size) ==
    <<out_channels, in_channels, kernel_size, kernel_size>>

\* convolution.Conv(in_channels, out_channels, kernel_size, ...)
Conv(in_channels, out_channels, kernel_size, fill) ==
    [in_channels |-> in_channels, out_channels |-> out_channels,
     kernel_size |-> kernel_size,
     weight |-> Allocate(WeightShape(in_channels, out_channels, kernel_size),
                         fill)]

\* torch.nn.PixelShuffle(upscale_factor): the constructor only stores it
PixelShuffle(upscale_factor) == [upscale_factor |-> upscale_factor]

NoTensor == Tensor(<<>>, <<>>)

\* variant of expanded_channels: the factor applied once
expanded_linear(out_channels, upscale_factor) ==
    out_channels * upscale_factor

\* out_channels * upscale_factor * upscale_factor
expanded_channels(out_channels, upscale_factor) ==
    out_channels * upscale_factor * upscale_factor

\* the fields __init__ sets
Constructed(in_channels, out_channels, upscale_factor, kernel_size, f, fill) ==
    /\ args' = [in_channels |-> in_channels, out_channels |-> out_channels,
                upscale_factor |-> upscale_factor,
                kernel_size |-> kernel_size]
    /\ convolution' = Conv(in_channels,
                           expanded_channels(out_channels, upscale_factor),
                           kernel_size, fill)
    /\ upsample' = PixelShuffle(upscale_factor)
    /\ initializer' = f

---------------------------------------------------------------------------
(* SpecIcnr: icnr_initialization called on a tensor of any 4-dimensional   *)
(* shape, on a module with any upscale factor and initializer.             *)

Shapes == {<<o, i, kh, kw>> : o \in 1..MaxO, i \in 1..MaxI,
                              kh \in 1..MaxK, kw \in 1..MaxK}

InitIcnr ==
    /\ pc = "called"
    /\ \E r \in -1..MaxR, f \in Initializers :
          /\ args = [in_channels |-> 1, out_channels |-> 1,
                     upscale_factor |-> r, kernel_size |-> 1]
          /\ convolution = Conv(1, expanded_channels(1, r), 1, "zeros")
          /\ upsample = PixelShuffle(r)
          /\ initializer = f
    /\ \E shape \in Shapes, fill \in Fills :
          /\ tensor = Allocate(shape, fill)
          /\ given = tensor
    /\ ret = NoTensor
    /\ initcalls = <<>>
    /\ trace = <<>>
    /\ inputs = <<>>
    /\ out = NoTensor
    /\ nforward = 0

\* result = module.icnr_initialization(tensor)
Call ==
    /\ pc = "called"
    /\ LET c == icnr_initialization(upsample.upscale_factor, initializer,
                                    tensor)
       IN  /\ ret' = c.ret
           /\ tensor' = c.tensor
           /\ initcalls' = initcalls \o c.initcalls
    /\ pc' = "returned"
    /\ UNCHANGED <<args, convolution, upsample, initializer, given, trace,
                   inputs, out, nforward>>

NextIcnr == Call

SpecIcnr == InitIcnr /\ [][NextIcnr]_vars

---------------------------------------------------------------------------
(* Spec: the life cycle of one module: __init__, then post_build, then     *)
(* forward calls.                                                          *)

None == "None"

Init ==
    /\ pc = "new"
    /\ args = None
    /\ convolution = None
    /\ upsample = None
    /\ initializer = None
    /\ tensor = NoTensor
    /\ given = NoTensor
    /\ ret = NoTensor
    /\ initcalls = <<>>
    /\ trace = <<>>
    /\ inputs = <<>>
    /\ out = NoTensor
    /\ nforward = 0

\* Conv2dPixelShuffle(in_channels, out_channels, upscale_factor, kernel_size,
\*                    initializer=f); nothing in it validates its arguments
__init__(in_channels, out_channels, upscale_factor, kernel_size, f, fill) ==
    /\ pc = "new"
    /\ Constructed(in_channels, out_channels, upscale_factor, kernel_size, f,
                   fill)
    /\ pc' = "constructed"
    /\ UNCHANGED <<tensor, given, ret, initcalls, trace, inputs, out, nforward>>

\* self.icnr_initialization(self.convolution.weight.data): the tensor passed
\* is the weight itself and the returned value is dropped
post_build ==
    /\ pc = "constructed"
    /\ LET c == icnr_initialization(upsample.upscale_factor, initializer,
                                    convolution.weight)
       IN  /\ convolution' = [convolution EXCEPT !.weight = c.tensor]
           /\ tensor' = c.tensor
           /\ given' = convolution.weight
           /\ ret' = c.ret
           /\ initcalls' = initcalls \o c.initcalls
           /\ pc' = IF c.ret.ok THEN "built" ELSE "raised"
    /\ UNCHANGED <<args, upsample, initializer, trace, inputs, out, nforward>>

\* shape of self.convolution(inputs) with stride 1 and "same" padding
ConvForward(conv, x) == Tensor(<<x[1], conv.out_channels, x[3], x[4]>>, <<>>)

\* shape of self.upsample(x): channels folded into r by r spatial blocks
PixelShuffleForward(ps, x) ==
    LET r == ps.upscale_factor
    IN  IF ~x.ok THEN x
        ELSE IF r <= 0 THEN Raise("RuntimeError")
        ELSE IF x.shape[2] % (r * r) # 0 THEN Raise("RuntimeError")
        ELSE Tensor(<<x.shape[1], x.shape[2] \div (r * r),
                      x.shape[3] * r, x.shape[4] * r>>, <<>>)

\* variant of forward: the weights are initialized again on every call
forward_reinitializing(x) ==
    /\ pc = "built"
    /\ nforward < MaxForward
    /\ LET c == icnr_initialization(upsample.upscale_factor, initializer,
                                    convolution.weight)
       IN  /\ convolution' = [convolution EXCEPT !.weight = c.tensor]
           /\ initcalls' = initcalls \o c.initcalls
    /\ inputs' = x
    /\ out' = PixelShuffleForward(upsample, ConvForward(convolution, x))
    /\ trace' = <<"icnr_initialization", "convolution", "upsample">>
    /\ nforward' = nforward + 1
    /\ UNCHANGED <<pc, args, upsample, initializer, tensor, given, ret>>

\* return self.upsample(self.convolution(inputs))
forward(x) ==
    /\ pc = "built"
    /\ nforward < MaxForward
    /\ inputs' = x
    /\ out' = PixelShuffleForward(upsample, ConvForward(convolution, x))
    /\ trace' = <<"convolution", "upsample">>
    /\ nforward' = nforward + 1
    /\ UNCHANGED <<pc, args, convolution, upsample, initializer, tensor,
                   given, ret, initcalls>>

Next ==
    \/ \E in_channels \in 1..MaxIn, out_channels \in 1..MaxOut,
          upscale_factor \in -1..MaxR, kernel_size \in 1..MaxKernel,
          f \in Initializers, fill \in Fills :
            __init__(in_channels, out_channels, upscale_factor, kernel_size,
                     f, fill)
    \/ post_build
    \/ \E n \in 1..MaxN, h \in 1..MaxHW, w \in 1..MaxHW :
            forward(<<n, convolution.in_channels, h, w>>)

Spec == Init /\ [][Next]_vars

---------------------------------------------------------------------------
(* Properties of icnr_initialization (SpecIcnr)                            *)

Returned == pc = "returned"

\* number of elements per slice along the first axis
Axis(t, i) == 0..(t.shape[i] - 1)

\* every block of n consecutive slices along axis 0 consists of equal slices
UniformBlocks(t, n) ==
    \A c \in 0..((t.shape[1] \div n) - 1), s1 \in 0..(n - 1), s2 \in 0..(n - 1),
       i \in Axis(t, 2), h \in Axis(t, 3), w \in Axis(t, 4) :
         At(t, <<c * n + s1, i, h, w>>) = At(t, <<c * n + s2, i, h, w>>)

\* C1: for upscale_factor r > 1 and a tensor [O, I, kH, kW] with r^2
\* dividing O, all r^2 slices of every contiguous block of r^2 output
\* channels of the returned tensor are element-wise identical.
C1_Uniformity ==
    LET r == upsample.upscale_factor
    IN  (Returned /\ r > 1 /\ given.shape[1] % (r * r) = 0)
        => /\ ret.ok
           /\ Len(ret.shape) = 4
           /\ ret.shape[1] = given.shape[1]
           /\ numel(ret) = Prod(ret.shape)
           /\ UniformBlocks(ret, r * r)

C1_Witness ==
    /\ Returned
    /\ upsample.upscale_factor = 2
    /\ initializer.kind = "index"
    /\ given.shape = <<8, 2, 2, 2>>
    /\ ret.ok
    /\ At(ret, <<0, 1, 1, 0>>) = At(ret, <<3, 1, 1, 0>>)
    /\ At(ret, <<3, 1, 1, 0>>) # At(ret, <<4, 1, 1, 0>>)
    /\ At(ret, <<0, 1, 1, 0>>) # At(ret, <<0, 0, 1, 0>>)

\* C2: for r > 1 with r^2 dividing O the initializer is called exactly once,
\* on a zero-filled tensor of shape [O / r^2, I, kH, kW], and with B what
\* that call returned, result[o, i, h, w] = B[o div r^2, i, h, w]; for
\* O = 8, I = 3, kH = kW = 3, r = 2 and B[0] all 1, B[1] all 2, channels
\* 0..3 are all 1 and channels 4..7 are all 2.
C2_BlockContiguous ==
    LET r == upsample.upscale_factor
        r2 == r * r
        B == initcalls[1].returned
    IN  (Returned /\ r > 1 /\ given.shape[1] % r2 = 0)
        => /\ Len(initcalls) = 1
           /\ initcalls[1].on = "zeros"
           /\ initcalls[1].arg =
                zeros(<<given.shape[1] \div r2>> \o Tail(given.shape))
           /\ B.shape = initcalls[1].arg.shape
           /\ ret.ok
           /\ ret.shape = given.shape
           /\ numel(ret) = Prod(ret.shape)
           /\ \A o \in Axis(ret, 1), i \in Axis(ret, 2), h \in Axis(ret, 3),
                 w \in Axis(ret, 4) :
                   At(ret, <<o, i, h, w>>) = At(B, <<o \div r2, i, h, w>>)
           /\ (r = 2 /\ given.shape = <<8, 3, 3, 3>>
               /\ initializer.kind = "channel")
              => \A o \in 0..7, i \in 0..2, h \in 0..2, w \in 0..2 :
                   At(ret, <<o, i, h, w>>) = IF o <= 3 THEN 1 ELSE 2

C2_Witness ==
    /\ Returned
    /\ upsample.upscale_factor = 2
    /\ given.shape = <<8, 3, 3, 3>>
    /\ initializer.kind = "channel"
    /\ ret.ok
    /\ At(ret, <<3, 2, 2, 2>>) = 1
    /\ At(ret, <<4, 0, 0, 0>>) = 2

\* C4: for r >= 1 with r^2 dividing O the returned tensor has exactly the
\* shape [O, I, kH, kW] of the input tensor.
C4_ShapePreserved ==
    LET r == upsample.upscale_factor
    IN  (Returned /\ r >= 1 /\ given.shape[1] % (r * r) = 0)
        => /\ ret.ok
           /\ ret.shape = given.shape
           /\ numel(ret) = numel(given)

C4_Witness ==
    /\ Returned
    /\ upsample.upscale_factor = 2
    /\ given.shape = <<8, 3, 2, 3>>
    /\ ret.ok
    /\ ret.shape = <<8, 3, 2, 3>>

\* C5: with upscale_factor = 1 the call returns exactly
\* initializer(tensor): the initializer is called once, on the input tensor
\* itself, and its result is returned without transpose, tiling or reshape.
C5_Identity ==
    (Returned /\ upsample.upscale_factor = 1)
    => /\ Len(initcalls) = 1
       /\ initcalls[1].on = "tensor"
       /\ initcalls[1].arg = given
       /\ ret = initcalls[1].returned
       /\ ret = CallInitializer(initializer, given).returned

C5_Witness ==
    /\ Returned
    /\ upsample.upscale_factor = 1
    /\ initializer.kind = "index"
    /\ given.shape = <<4, 2, 1, 2>>
    /\ given.data # ret.data
    /\ At(ret, <<1, 0, 0, 1>>) = 6

\* C7 as stated: for r > 1 and O not divisible by r^2 the call completes
\* without raising and returns a tensor whose element count differs from
\* the input's.
C7_Original ==
    LET r == upsample.upscale_factor
    IN  (Returned /\ r > 1 /\ given.shape[1] % (r * r) # 0)
        => (ret.ok /\ numel(ret) # numel(given))

\* C7 amended: for r > 1 and O not divisible by r^2, O / r^2 is truncated
\* to R; the call completes exactly when R >= 1 and O divides I * R * r^2,
\* and then returns a tensor of shape [O, I * R * r^2 / O, kH, kW] whose
\* element count differs from the input's; otherwise it raises the
\* reshape's RuntimeError.
C7_Truncation ==
    LET r == upsample.upscale_factor
        r2 == r * r
        O == given.shape[1]
        I == given.shape[2]
        R == O \div r2
    IN  (Returned /\ r > 1 /\ O % r2 # 0)
        => /\ Len(initcalls) = 1
           /\ initcalls[1].arg.shape = <<R>> \o Tail(given.shape)
           /\ ret.ok <=> (R >= 1 /\ (I * R * r2) % O = 0)
           /\ ret.ok => /\ ret.shape = <<O, (I * R * r2) \div O,
                                        given.shape[3], given.shape[4]>>
                        /\ numel(ret) = Prod(ret.shape)
                        /\ numel(ret) # numel(given)
           /\ ~ret.ok => ret.err = "RuntimeError"

C7_Witness ==
    /\ Returned
    /\ upsample.upscale_factor = 2
    /\ given.shape = <<6, 3, 1, 2>>
    /\ ret.ok
    /\ ret.shape = <<6, 2, 1, 2>>
    /\ numel(ret) < numel(given)

\* C8 as stated: for every upscale_factor >= 1 and every initializer the
\* contents of the input tensor after the call equal its contents before.
C8_Original ==
    (Returned /\ upsample.upscale_factor >= 1) => tensor = given

\* C8 amended: for upscale_factor > 1 the input tensor is unchanged for
\* every initializer (the initializer is applied to a fresh zero tensor);
\* for upscale_factor = 1 the input itself is handed to the initializer, so
\* it is unchanged when the initializer returns a new tensor, and
\* overwritten with the returned values when the initializer fills the
\* tensor it is given.
C8_InputFrame ==
    LET r == upsample.upscale_factor
    IN  Returned
        => /\ r > 1 => (tensor = given /\ initcalls[1].on = "zeros")
           /\ (r = 1 /\ ~initializer.inplace) => tensor = given
           /\ (r = 1 /\ initializer.inplace) => tensor = ret

C8_Witness ==
    /\ Returned
    /\ upsample.upscale_factor = 2
    /\ initializer.inplace
    /\ given.shape = <<4, 2, 2, 1>>
    /\ ret.ok
    /\ tensor = given
    /\ tensor.data # ret.data
    /\ At(tensor, <<0, 0, 0, 0>>) = -1

---------------------------------------------------------------------------
(* Properties of the module's life cycle (Spec)                            *)

\* C3 as stated: after post_build with upscale_factor r >= 1 the
\* convolution's weight holds the values icnr_initialization returned, and
\* every contiguous block of r^2 output-channel slices of it is uniform.
C3_Original ==
    (pc = "built" /\ upsample.upscale_factor >= 1)
    => /\ convolution.weight = ret
       /\ UniformBlocks(convolution.weight,
                        upsample.upscale_factor * upsample.upscale_factor)

\* C6: the convolution is configured with C * r^2 output channels and the
\* rearranger with the same r, so forward's output has C channels and
\* spatial size r*H by r*W for an input of spatial size H by W.
C6_ForwardShape ==
    (pc \in {"constructed", "built"} /\ args.upscale_factor >= 1)
    => /\ upsample.upscale_factor = args.upscale_factor
       /\ convolution.out_channels =
            args.out_channels * args.upscale_factor * args.upscale_factor
       /\ convolution.weight.shape[1] = convolution.out_channels
       /\ nforward > 0
          => /\ out.ok
             /\ out.shape = <<inputs[1], args.out_channels,
                              args.upscale_factor * inputs[3],
                              args.upscale_factor * inputs[4]>>

C6_Witness ==
    /\ pc = "built"
    /\ nforward > 0
    /\ args.upscale_factor = 2
    /\ args.out_channels = 2
    /\ inputs = <<2, 2, 1, 2>>
    /\ out.ok
    /\ out.shape = <<2, 2, 2, 4>>

IsForward == nforward' = nforward + 1

\* C9: every forward applies the convolution first and the rearranger
\* second, invokes neither icnr_initialization nor the initializer, and
\* leaves the weight, the upscale factor and the stored initializer
\* unchanged.
C9_ForwardPure ==
    [][IsForward => /\ trace' = <<"convolution", "upsample">>
                    /\ initcalls' = initcalls
                    /\ ret' = ret
                    /\ convolution' = convolution
                    /\ upsample' = upsample
                    /\ initializer' = initializer]_vars

C9_Witness ==
    /\ pc = "built"
    /\ nforward = 2
    /\ trace = <<"convolution", "upsample">>
    /\ out.ok
    /\ Len(initcalls) = 1

\* C10 as stated: construction with upscale_factor <= 0 fails, so no module
\* with a non-positive upscale factor is ever constructed or built.
C10_Original ==
    (pc \in {"constructed", "built"}) => upsample.upscale_factor >= 1

====
